---- MODULE Spec2Model ----
(***************************************************************************)
(* DiskFileSystemProvider (vs/workbench/services/files2/node):            *)
(* the recursive watch coordinator, the non-recursive watchers, the two   *)
(* event streams, and the file operations writeFile / readFile / rename / *)
(* copy / delete over a small local disk.                                 *)
(***************************************************************************)
EXTENDS Integers, Sequences, FiniteSets, TLC

(***************************************************************************)
(* Bounds of the model.                                                    *)
(***************************************************************************)
\* recursive watch() registrations issued over a run
MaxRegs == 3
\* recursive registrations where the non-recursive watchers and the events
\* are explored with them
MaxSideRegs == 2
\* recursive watcher instances constructed over a run
MaxInstances == 3
\* non-recursive watcher instances constructed over a run
MaxNonRecursive == 2
\* watcher callbacks (change batches and errors together) over a run
MaxReports == 2
\* length of a file's content, in bytes
MaxLen == 1
\* registerProvider calls made on the file service over a run
MaxProviders == 2

(***************************************************************************)
(* Platform identification.                                                *)
(***************************************************************************)
Platforms == {"win32", "linux", "darwin"}

isWindows(plat) == plat = "win32"

isLinux(plat) == plat = "linux"

\* FileSystemProviderCapabilities.PathCaseSensitive is set on Linux only.
isPathCaseSensitive(plat) == isLinux(plat)

(***************************************************************************)
(* Resources and paths.  A path is a sequence of segments; a URI is a      *)
(* scheme with a path.  normalize() drops the "." segments.                *)
(***************************************************************************)
URI(path) == [scheme |-> "file", path |-> path]

normalize(path) == SelectSeq(path, LAMBDA s : s # ".")

toFilePath(resource) == normalize(resource.path)

WatchResources == {URI(<<".", "a">>), URI(<<"b">>)}

ExcludeSets == {<<"x">>}

(***************************************************************************)
(* State.                                                                  *)
(***************************************************************************)
VARIABLES
    platform,                 \* OS family of the build: fixed
    recursiveWatcher,         \* index into instances, 0 for undefined
    recursiveFoldersToWatch,  \* sequence of folder descriptors
    instances,                \* every recursive watcher instance constructed
    nonRecursive,             \* every NodeJSWatcherService instance constructed
    regs,                     \* number of recursive registrations issued
    timeouts,                 \* timers the delayer has scheduled and not run
    providerDisposed,         \* dispose() of the provider has run
    changeStream,             \* what _onDidChangeFile fired, in order
    errorStream,              \* what _onDidWatchErrorOccur fired, in order
    reports,                  \* the callbacks the watchers made, in order
    disposedRegs,             \* registrations whose disposable was disposed
    nonRecursiveCalls,        \* non-recursive watch() calls made
    burst,                    \* calls since the last recomputation
    lastRun,                  \* what the last recomputation did
    disk,                     \* the local disk: stored name -> content or Absent
    lastOp,                   \* the last file operation: arguments, OS calls, result
    _provider,                \* LegacyRemoteFileService: scheme -> provider, 0 for none
    registrations,            \* each registerProvider call: scheme, threw, disposed
    lastCall                  \* the last call on the file service: steps, result

watchVars == <<platform, recursiveWatcher, recursiveFoldersToWatch, instances,
               nonRecursive, regs, timeouts, providerDisposed, changeStream,
               errorStream, reports, disposedRegs, nonRecursiveCalls, burst,
               lastRun>>

fsVars == <<disk, lastOp>>

serviceVars == <<_provider, registrations, lastCall>>

vars == <<watchVars, fsVars, serviceVars>>

(***************************************************************************)
(* Array helpers used by the registration's disposable.                    *)
(***************************************************************************)
\* Array.prototype.indexOf by object identity: 0-based, -1 when absent.
indexOf(folders, id) ==
    IF \E i \in 1..Len(folders) : folders[i].id = id
    THEN (CHOOSE i \in 1..Len(folders) :
              /\ folders[i].id = id
              /\ \A j \in 1..(i - 1) : folders[j].id # id) - 1
    ELSE -1

\* Array.prototype.splice(start, 1): a negative start counts from the end.
splice(folders, start) ==
    LET len == Len(folders)
        s   == IF start < 0
               THEN (IF len + start < 0 THEN 0 ELSE len + start)
               ELSE (IF start > len THEN len ELSE start)
    IN  IF s >= len
        THEN folders
        ELSE SubSeq(folders, 1, s) \o SubSeq(folders, s + 2, len)

(***************************************************************************)
(* The coalescing trigger (ThrottledDelayer with delay 0) and lifecycle.   *)
(***************************************************************************)
\* trigger(): cancels the scheduled timer, if any, and schedules one.
DelayerTrigger(t) == 1

\* dispose() of the delayer cancels the scheduled timer.
DelayerDispose(t) == 0

\* lifecycle.dispose(x): nothing for undefined, x.dispose() otherwise; a
\* disposed watcher service is stopped and watches no folder.
dispose(insts, w) ==
    IF w = 0
    THEN insts
    ELSE [insts EXCEPT ![w].alive = FALSE, ![w].folders = <<>>]

(***************************************************************************)
(* Recursive watching.                                                     *)
(***************************************************************************)
\* watchRecursive: the descriptor pushed for registration id.
watchRecursive(folders, id, resource, excludes) ==
    Append(folders, [id |-> id, path |-> toFilePath(resource), excludes |-> excludes])

\* The disposable watchRecursive returns: splice(indexOf(folderToWatch), 1).
watchRecursiveDispose(folders, id) ==
    splice(folders, indexOf(folders, id))

\* refreshRecursiveWatchers that schedules a run without superseding the queued one.
refreshRecursiveWatchersQueued(t) == t + 1

\* refreshRecursiveWatchers: one trigger of the delayer.
refreshRecursiveWatchers(t) == DelayerTrigger(t)

\* this.recursiveWatcher instanceof NsfwWatcherService
instanceofNsfw(insts, w) == w # 0 /\ insts[w].kind = "Nsfw"

\* The selection that takes the Unix watcher for one folder on every platform.
watcherImplUnix(plat, n) ==
    IF n = 1 THEN "Unix" ELSE "Nsfw"

\* The constructor doRefreshRecursiveWatchers selects.
watcherImpl(plat, n) ==
    IF n = 1
    THEN (IF isWindows(plat) THEN "Windows" ELSE "Unix")
    ELSE "Nsfw"

\* doRefreshRecursiveWatchers that creates the new watcher and forgets the old.
doRefreshRecursiveWatchersLeak(plat, w, insts, folders) ==
    IF instanceofNsfw(insts, w)
    THEN [recursiveWatcher |-> w,
          instances |-> [insts EXCEPT ![w].folders = folders]]
    ELSE IF Len(folders) > 0
         THEN [recursiveWatcher |-> Len(insts) + 1,
               instances |-> Append(insts,
                   [kind |-> watcherImpl(plat, Len(folders)),
                    alive |-> TRUE,
                    folders |-> folders])]
         ELSE [recursiveWatcher |-> w, instances |-> insts]

\* doRefreshRecursiveWatchers without the reuse of the multi-folder watcher.
doRefreshRecursiveWatchersNoReuse(plat, w, insts, folders) ==
    LET old == dispose(insts, w)
    IN  IF Len(folders) > 0
        THEN [recursiveWatcher |-> Len(old) + 1,
              instances |-> Append(old,
                  [kind |-> watcherImpl(plat, Len(folders)),
                   alive |-> TRUE,
                   folders |-> folders])]
        ELSE [recursiveWatcher |-> w, instances |-> old]

\* doRefreshRecursiveWatchers that reuses the multi-folder watcher only while
\* there are folders to watch.
doRefreshRecursiveWatchersReuseWatching(plat, w, insts, folders) ==
    IF instanceofNsfw(insts, w) /\ Len(folders) > 0
    THEN [recursiveWatcher |-> w,
          instances |-> [insts EXCEPT ![w].folders = folders]]
    ELSE LET old == dispose(insts, w)
         IN  IF Len(folders) > 0
             THEN [recursiveWatcher |-> Len(old) + 1,
                   instances |-> Append(old,
                       [kind |-> watcherImpl(plat, Len(folders)),
                        alive |-> TRUE,
                        folders |-> folders])]
             ELSE [recursiveWatcher |-> w, instances |-> old]

\* doRefreshRecursiveWatchers: the new recursiveWatcher and instances.
doRefreshRecursiveWatchers(plat, w, insts, folders) ==
    IF instanceofNsfw(insts, w)
    THEN [recursiveWatcher |-> w,
          instances |-> [insts EXCEPT ![w].folders = folders]]
    ELSE LET old == dispose(insts, w)
         IN  IF Len(folders) > 0
             THEN [recursiveWatcher |-> Len(old) + 1,
                   instances |-> Append(old,
                       [kind |-> watcherImpl(plat, Len(folders)),
                        alive |-> TRUE,
                        folders |-> folders])]
             ELSE [recursiveWatcher |-> w, instances |-> old]

\* watchNonRecursive that pools: a live watcher of the same path is reused.
watchNonRecursivePooled(nonrec, resource) ==
    IF \E i \in 1..Len(nonrec) :
           nonrec[i].alive /\ nonrec[i].path = toFilePath(resource)
    THEN nonrec
    ELSE Append(nonrec, [kind |-> "NodeJS", alive |-> TRUE, path |-> toFilePath(resource)])

\* watchNonRecursive: a new NodeJSWatcherService for the resource, returned
\* to the caller.
watchNonRecursive(nonrec, resource) ==
    Append(nonrec, [kind |-> "NodeJS", alive |-> TRUE, path |-> toFilePath(resource)])

(***************************************************************************)
(* Event republishing.                                                     *)
(***************************************************************************)
DiskChangeBatches ==
    {<<[type |-> "ADDED", path |-> <<"a", "f">>],
       [type |-> "DELETED", path |-> <<"b">>]>>}

ErrorMessages == {"EMFILE"}

\* toFileChanges: each disk change becomes a file change on a file URI.
toFileChanges(changes) ==
    [i \in 1..Len(changes) |->
        [type |-> changes[i].type, resource |-> URI(changes[i].path)]]

\* new Error(message): an error that carries no code
NewError(message) == [name |-> "Error", code |-> "", message |-> message]

\* Emitter.fire: the value is delivered once on the emitter's stream.
fire(stream, value) == Append(stream, value)

\* The on-change callback handed to every watcher.
onChange(stream, changes) == fire(stream, toFileChanges(changes))

\* An on-error callback that swallows the error.
onErrorSwallowed(stream, message) == stream

\* The on-error callback handed to every watcher.
onError(stream, message) == fire(stream, NewError(message))

(***************************************************************************)
(* The local disk.  It maps a stored name to a file; on a case-insensitive *)
(* file system (every platform but Linux) a path names the stored entry    *)
(* that equals it up to case.                                              *)
(***************************************************************************)
Bytes == {0, 1}

Contents == UNION {[1..n -> Bytes] : n \in 0..MaxLen}

DiskNames == {<<"x">>, <<"X">>, <<"y">>}

FSResources == {URI(<<"x">>), URI(<<"X">>), URI(<<".", "y">>)}

Absent == [exists |-> FALSE, dir |-> FALSE, data |-> <<>>]

File(content) == [exists |-> TRUE, dir |-> FALSE, data |-> content]

\* A directory; what it holds is not modelled.
Directory == [exists |-> TRUE, dir |-> TRUE, data |-> <<>>]

toLowerCase(segment) == IF segment = "X" THEN "x" ELSE segment

\* extpath.isEqual(pathA, pathB, ignoreCase)
isEqual(pathA, pathB, ignoreCase) ==
    IF ignoreCase
    THEN /\ Len(pathA) = Len(pathB)
         /\ \A i \in 1..Len(pathA) : toLowerCase(pathA[i]) = toLowerCase(pathB[i])
    ELSE pathA = pathB

Disks(plat) ==
    {d \in [DiskNames -> {Absent} \cup {File(c) : c \in Contents}] :
        isPathCaseSensitive(plat) \/ ~(d[<<"x">>].exists /\ d[<<"X">>].exists)}

\* The stored name a path resolves to, <<>> when it names nothing.
resolve(d, plat, path) ==
    LET hits == {n \in DOMAIN d :
                    d[n].exists /\ isEqual(n, path, ~isPathCaseSensitive(plat))}
    IN  IF hits = {} THEN <<>> ELSE CHOOSE n \in hits : TRUE

\* pfs.fileExists
fileExists(d, plat, path) == resolve(d, plat, path) # <<>>

\* The path names a directory.
isDirectory(d, plat, path) ==
    fileExists(d, plat, path) /\ d[resolve(d, plat, path)].dir

\* The disks that also hold directories; their files hold zero bytes only.
DisksWithDirectories(plat) ==
    {d \in [DiskNames -> {Absent, Directory}
                            \cup {File([i \in 1..n |-> 0]) : n \in 0..MaxLen}] :
        isPathCaseSensitive(plat) \/ ~(d[<<"x">>].exists /\ d[<<"X">>].exists)}

\* The name a write to path lands on: the entry it resolves to, else path.
entryFor(d, plat, path) ==
    IF fileExists(d, plat, path) THEN resolve(d, plat, path) ELSE path

\* pfs.writeFile(path, content): create or replace the whole content.
fsWriteFile(d, plat, path, content) ==
    [d EXCEPT ![entryFor(d, plat, path)] = File(content)]

\* pfs.writeFile(path, content, {flag: 'r+'}): write from offset 0 into the
\* existing file; what lies beyond the written bytes stays.
fsWriteFileUpdate(d, plat, path, content) ==
    LET n   == entryFor(d, plat, path)
        old == d[n].data
    IN  [d EXCEPT ![n] = File(content \o SubSeq(old, Len(content) + 1, Len(old)))]

\* pfs.truncate(path, 0)
fsTruncate(d, plat, path) ==
    [d EXCEPT ![entryFor(d, plat, path)] = File(<<>>)]

\* pfs.rimraf / pfs.unlink: the entry is gone.
fsRemove(d, plat, path) ==
    IF fileExists(d, plat, path)
    THEN [d EXCEPT ![resolve(d, plat, path)] = Absent]
    ELSE d

\* pfs.move: the source entry takes the target name, replacing what it named.
fsMove(d, plat, from, to) ==
    LET src == resolve(d, plat, from)
        gone == fsRemove(fsRemove(d, plat, to), plat, from)
    IN  [gone EXCEPT ![to] = d[src]]

\* pfs.copy onto another file; selfCopy tells what copying a file onto
\* itself leaves: "keep" or "truncate".
fsCopy(d, plat, from, to, selfCopy) ==
    LET src == resolve(d, plat, from)
        dst == entryFor(d, plat, to)
    IN  IF dst = src
        THEN (IF selfCopy = "keep" THEN d ELSE [d EXCEPT ![src] = File(<<>>)])
        ELSE [d EXCEPT ![dst] = d[src]]

(***************************************************************************)
(* Errors.                                                                 *)
(***************************************************************************)
NoError == [name |-> "", code |-> "", message |-> ""]

\* A NodeJS.ErrnoException with the given code.
ErrnoException(code) == [name |-> "Error", code |-> code, message |-> code]

\* createFileSystemProviderError(error, code)
createFileSystemProviderError(error, code) ==
    [name |-> "FileSystemProviderError", code |-> code, message |-> error.message]

\* toFileSystemProviderError without the check for an already converted error.
toFileSystemProviderErrorTwice(error) ==
    createFileSystemProviderError(error,
        CASE error.code = "ENOENT" -> "FileNotFound"
          [] error.code = "EISDIR" -> "FileIsADirectory"
          [] error.code = "EEXIST" -> "FileExists"
          [] error.code = "EPERM" -> "NoPermissions"
          [] error.code = "EACCESS" -> "NoPermissions"
          [] OTHER -> "Unknown")

\* toFileSystemProviderError
toFileSystemProviderError(error) ==
    IF error.name = "FileSystemProviderError"
    THEN error
    ELSE createFileSystemProviderError(error,
             CASE error.code = "ENOENT" -> "FileNotFound"
               [] error.code = "EISDIR" -> "FileIsADirectory"
               [] error.code = "EEXIST" -> "FileExists"
               [] error.code = "EPERM" -> "NoPermissions"
               [] error.code = "EACCESS" -> "NoPermissions"
               [] OTHER -> "Unknown")

\* What an OS call can do: succeed, or fail with one of these codes.
OsFaults == {"EPERM", "EBUSY", "EINVAL", "ENAMETOOLONG"}

Outcomes == {"ok"} \cup OsFaults

\* The outcomes drawn for the calls that only ever fail one way here.
PermOutcomes == {"ok", "EPERM"}

\* The outcomes drawn for a call the OS may refuse: operation not permitted
\* (EPERM) or permission denied (EACCES).
DeniedOutcomes == {"ok", "EPERM", "EACCES"}

Returned(d, calls, value) ==
    [disk |-> d, calls |-> calls, error |-> NoError, value |-> value]

Thrown(d, calls, error) ==
    [disk |-> d, calls |-> calls, error |-> error, value |-> <<>>]

Repeat(x, n) == [i \in 1..n |-> x]

(***************************************************************************)
(* File reading and writing.                                               *)
(***************************************************************************)
\* readFile
readFile(d, plat, resource, fault) ==
    LET filePath == toFilePath(resource)
    IN  IF fault # "ok"
        THEN Thrown(d, <<"readFile">>, toFileSystemProviderError(ErrnoException(fault)))
        ELSE IF ~fileExists(d, plat, filePath)
        THEN Thrown(d, <<"readFile">>, toFileSystemProviderError(ErrnoException("ENOENT")))
        ELSE IF isDirectory(d, plat, filePath)
        THEN Thrown(d, <<"readFile">>, toFileSystemProviderError(ErrnoException("EISDIR")))
        ELSE Returned(d, <<"readFile">>, d[resolve(d, plat, filePath)].data)

\* retry(task, delay, retries) of writeFile: the attempts it makes when the
\* first `fails` attempts fail, and whether one of them succeeds.
retries == 3

retryAttempts(fails) == IF fails < retries THEN fails + 1 ELSE retries

retrySucceeds(fails) == fails < retries

\* writeFile validation that forgets the create flag.
writeFileValidateNoCreate(exists, opts) ==
    IF exists /\ ~opts.overwrite
    THEN createFileSystemProviderError(NewError("File already exists"), "FileExists")
    ELSE NoError

\* writeFile, "Validate target": the error thrown, NoError when it passes.
writeFileValidate(exists, opts) ==
    IF exists /\ ~opts.overwrite
    THEN createFileSystemProviderError(NewError("File already exists"), "FileExists")
    ELSE IF ~exists /\ ~opts.create
    THEN createFileSystemProviderError(NewError("File does not exist"), "FileNotFound")
    ELSE NoError

\* writeFile, the plain write of the content (also the catch's fallback).
writeFileDirect(d, plat, filePath, content, fault, calls) ==
    IF fault # "ok"
    THEN Thrown(d, calls \o <<"writeFile">>,
                toFileSystemProviderError(ErrnoException(fault)))
    ELSE IF isDirectory(d, plat, filePath)
    THEN Thrown(d, calls \o <<"writeFile">>,
                toFileSystemProviderError(ErrnoException("EISDIR")))
    ELSE Returned(fsWriteFile(d, plat, filePath, content), calls \o <<"writeFile">>, <<>>)

\* writeFile on Windows that writes with r+ without truncating first.
writeFileWindowsNoTruncate(d, plat, filePath, content, f, calls) ==
    LET tried == retryAttempts(f.update)
        done  == calls \o Repeat("writeFile r+", tried)
    IN  IF retrySucceeds(f.update) /\ ~isDirectory(d, plat, filePath)
        THEN Returned(fsWriteFileUpdate(d, plat, filePath, content), done, <<>>)
        ELSE writeFileDirect(d, plat, filePath, content, f.write, done)

\* writeFile on Windows that truncates again before every r+ attempt.
writeFileWindowsRetruncating(d, plat, filePath, content, f, calls) ==
    LET truncated == f.truncate = "ok" /\ ~isDirectory(d, plat, filePath)
        t     == IF truncated THEN fsTruncate(d, plat, filePath) ELSE d
        tried == IF truncated THEN retryAttempts(f.update) ELSE 0
        done  == calls \o <<"truncate">>
                       \o Repeat("writeFile r+", IF tried > 0 THEN 1 ELSE 0)
                       \o (IF tried > 1 THEN <<"truncate", "writeFile r+">> ELSE <<>>)
                       \o (IF tried > 2 THEN <<"truncate", "writeFile r+">> ELSE <<>>)
    IN  IF truncated /\ retrySucceeds(f.update)
        THEN Returned(fsWriteFileUpdate(t, plat, filePath, content), done, <<>>)
        ELSE writeFileDirect(t, plat, filePath, content, f.write, done)

\* writeFile on Windows for an existing file: truncate, then write with r+
\* under retry; whatever that throws is traced and the file written directly.
writeFileWindows(d, plat, filePath, content, f, calls) ==
    LET truncated == f.truncate = "ok" /\ ~isDirectory(d, plat, filePath)
        t     == IF truncated THEN fsTruncate(d, plat, filePath) ELSE d
        tried == IF truncated THEN retryAttempts(f.update) ELSE 0
        done  == calls \o <<"truncate">> \o Repeat("writeFile r+", tried)
    IN  IF truncated /\ retrySucceeds(f.update)
        THEN Returned(fsWriteFileUpdate(t, plat, filePath, content), done, <<>>)
        ELSE writeFileDirect(t, plat, filePath, content, f.write, done)

\* writeFile
writeFile(d, plat, resource, content, opts, f) ==
    LET filePath == toFilePath(resource)
        exists   == fileExists(d, plat, filePath)
        invalid  == writeFileValidate(exists, opts)
    IN  IF invalid # NoError
        THEN Thrown(d, <<"fileExists">>, toFileSystemProviderError(invalid))
        ELSE IF exists /\ isWindows(plat)
        THEN writeFileWindows(d, plat, filePath, content, f, <<"fileExists">>)
        ELSE writeFileDirect(d, plat, filePath, content, f.write, <<"fileExists">>)

(***************************************************************************)
(* File metadata resolving.  The path <<>> is the folder that holds the    *)
(* disk's entries; it always exists.                                       *)
(***************************************************************************)
Root == URI(<<>>)

\* resources.joinPath(resource, child)
joinPath(resource, child) == URI(resource.path \o <<child>>)

\* pfs.readdir of an existing directory: the names it holds, in listing order.
fsReaddir(d, plat, path) ==
    IF path = <<>>
    THEN SelectSeq(<<"x", "X", "y">>, LAMBDA c : d[<<c>>].exists)
    ELSE <<>>

\* stat
stat(d, plat, resource, fault) ==
    LET filePath == toFilePath(resource)
    IN  IF fault # "ok"
        THEN Thrown(d, <<"statLink">>, toFileSystemProviderError(ErrnoException(fault)))
        ELSE IF filePath = <<>>
        THEN Returned(d, <<"statLink">>, [type |-> "Directory", size |-> 0])
        ELSE IF ~fileExists(d, plat, filePath)
        THEN Thrown(d, <<"statLink">>, toFileSystemProviderError(ErrnoException("ENOENT")))
        ELSE LET e == d[resolve(d, plat, filePath)]
             IN  Returned(d, <<"statLink">>,
                          [type |-> IF e.dir THEN "Directory" ELSE "File",
                           size |-> Len(e.data)])

\* readdir, the loop over the children: the [name, type] pairs of those whose
\* stat succeeds; failing is the set of children whose stat the OS fails.
RECURSIVE readdirChildren(_, _, _, _, _)
readdirChildren(d, plat, resource, children, failing) ==
    IF children = <<>>
    THEN <<>>
    ELSE LET child == Head(children)
             st == stat(d, plat, joinPath(resource, child),
                        IF child \in failing THEN "EACCES" ELSE "ok")
             rest == readdirChildren(d, plat, resource, Tail(children), failing)
         IN  IF st.error = NoError
             THEN <<[name |-> child, type |-> st.value.type]>> \o rest
             ELSE rest

\* readdir that fails as a whole when the stat of one child fails.
readdirStrict(d, plat, resource, fault, failing) ==
    LET filePath == toFilePath(resource)
        children == fsReaddir(d, plat, filePath)
    IN  IF fault # "ok"
        THEN Thrown(d, <<"readdir">>, toFileSystemProviderError(ErrnoException(fault)))
        ELSE IF filePath # <<>> /\ ~fileExists(d, plat, filePath)
        THEN Thrown(d, <<"readdir">>, toFileSystemProviderError(ErrnoException("ENOENT")))
        ELSE IF filePath # <<>> /\ ~isDirectory(d, plat, filePath)
        THEN Thrown(d, <<"readdir">>, toFileSystemProviderError(ErrnoException("ENOTDIR")))
        ELSE IF \E i \in 1..Len(children) : children[i] \in failing
        THEN Thrown(d, <<"readdir">> \o Repeat("statLink", Len(children)),
                    toFileSystemProviderError(ErrnoException("EACCES")))
        ELSE Returned(d, <<"readdir">> \o Repeat("statLink", Len(children)),
                      readdirChildren(d, plat, resource, children, failing))

\* readdir
readdir(d, plat, resource, fault, failing) ==
    LET filePath == toFilePath(resource)
    IN  IF fault # "ok"
        THEN Thrown(d, <<"readdir">>, toFileSystemProviderError(ErrnoException(fault)))
        ELSE IF filePath # <<>> /\ ~fileExists(d, plat, filePath)
        THEN Thrown(d, <<"readdir">>, toFileSystemProviderError(ErrnoException("ENOENT")))
        ELSE IF filePath # <<>> /\ ~isDirectory(d, plat, filePath)
        THEN Thrown(d, <<"readdir">>, toFileSystemProviderError(ErrnoException("ENOTDIR")))
        ELSE LET children == fsReaddir(d, plat, filePath)
             IN  Returned(d, <<"readdir">> \o Repeat("statLink", Len(children)),
                          readdirChildren(d, plat, resource, children, failing))

(***************************************************************************)
(* File descriptors.  A descriptor remembers the entry it was opened on    *)
(* and the flags; the closed one stands for any number that is not open.   *)
(***************************************************************************)
Fd(path, flags) == [path |-> path, flags |-> flags]

ClosedFd == Fd(<<>>, "closed")

\* open
open(d, plat, resource, opts, fault) ==
    LET filePath == toFilePath(resource)
        flags == IF opts.create THEN "w" ELSE "r"
    IN  IF fault # "ok"
        THEN Thrown(d, <<"open">>, toFileSystemProviderError(ErrnoException(fault)))
        ELSE IF flags = "w" /\ isDirectory(d, plat, filePath)
        THEN Thrown(d, <<"open">>, toFileSystemProviderError(ErrnoException("EISDIR")))
        ELSE IF flags = "r" /\ ~fileExists(d, plat, filePath)
        THEN Thrown(d, <<"open">>, toFileSystemProviderError(ErrnoException("ENOENT")))
        ELSE IF flags = "w"
        THEN Returned(fsWriteFile(d, plat, filePath, <<>>), <<"open">>,
                      Fd(entryFor(d, plat, filePath), flags))
        ELSE Returned(d, <<"open">>, Fd(entryFor(d, plat, filePath), flags))

\* close
close(d, fd, fault) ==
    IF fault # "ok"
    THEN Thrown(d, <<"close">>, toFileSystemProviderError(ErrnoException(fault)))
    ELSE IF fd.flags = "closed"
    THEN Thrown(d, <<"close">>, toFileSystemProviderError(ErrnoException("EBADF")))
    ELSE Returned(d, <<"close">>, <<>>)

\* read: the bytes read from position pos, at most length of them
read(d, fd, pos, length, fault) ==
    IF fault # "ok"
    THEN Thrown(d, <<"read">>, toFileSystemProviderError(ErrnoException(fault)))
    ELSE IF fd.flags # "r"
    THEN Thrown(d, <<"read">>, toFileSystemProviderError(ErrnoException("EBADF")))
    ELSE IF d[fd.path].dir
    THEN Thrown(d, <<"read">>, toFileSystemProviderError(ErrnoException("EISDIR")))
    ELSE LET data == d[fd.path].data
             last == IF pos + length < Len(data) THEN pos + length ELSE Len(data)
         IN  Returned(d, <<"read">>, SubSeq(data, pos + 1, last))

\* write: data is written at position pos; the value is the bytes written
write(d, fd, pos, data, fault) ==
    IF fault # "ok"
    THEN Thrown(d, <<"write">>, toFileSystemProviderError(ErrnoException(fault)))
    ELSE IF fd.flags # "w"
    THEN Thrown(d, <<"write">>, toFileSystemProviderError(ErrnoException("EBADF")))
    ELSE LET old == d[fd.path].data
             gap == [i \in 1..pos |-> IF i <= Len(old) THEN old[i] ELSE 0]
             new == gap \o data \o SubSeq(old, pos + Len(data) + 1, Len(old))
         IN  Returned([d EXCEPT ![fd.path] = File(new)], <<"write">>, Len(data))

(***************************************************************************)
(* Move / copy / delete.                                                   *)
(***************************************************************************)
\* mkdir
mkdir(d, plat, resource, fault) ==
    LET filePath == toFilePath(resource)
    IN  IF fault # "ok"
        THEN Thrown(d, <<"mkdir">>, toFileSystemProviderError(ErrnoException(fault)))
        ELSE IF filePath = <<>> \/ fileExists(d, plat, filePath)
        THEN Thrown(d, <<"mkdir">>, toFileSystemProviderError(ErrnoException("EEXIST")))
        ELSE Returned([d EXCEPT ![filePath] = Directory], <<"mkdir">>, <<>>)

\* doDelete
doDelete(d, plat, filePath, opts, fault) ==
    LET call == IF opts.recursive THEN "rimraf" ELSE "unlink"
    IN  IF fault # "ok"
        THEN Thrown(d, <<call>>, ErrnoException(fault))
        ELSE IF ~opts.recursive /\ ~fileExists(d, plat, filePath)
        THEN Thrown(d, <<call>>, ErrnoException("ENOENT"))
        ELSE IF ~opts.recursive /\ isDirectory(d, plat, filePath)
        THEN Thrown(d, <<call>>, ErrnoException(IF isLinux(plat) THEN "EISDIR" ELSE "EPERM"))
        ELSE Returned(fsRemove(d, plat, filePath), <<call>>, <<>>)

\* delete that throws what doDelete threw.
deleteRaw(d, plat, resource, opts, fault) ==
    doDelete(d, plat, toFilePath(resource), opts, fault)

\* delete
delete(d, plat, resource, opts, fault) ==
    LET r == doDelete(d, plat, toFilePath(resource), opts, fault)
    IN  IF r.error = NoError THEN r
        ELSE Thrown(r.disk, r.calls, toFileSystemProviderError(r.error))

\* validateTargetDeleted that deletes an existing target whatever overwrite says.
validateTargetDeletedAlways(d, plat, from, to, overwrite, fault) ==
    LET fromFilePath == toFilePath(from)
        toFilePathV  == toFilePath(to)
        isCaseChange == IF isPathCaseSensitive(plat) THEN FALSE
                        ELSE isEqual(fromFilePath, toFilePathV, TRUE)
    IN  IF isCaseChange
        THEN Returned(d, <<>>, <<>>)
        ELSE IF ~fileExists(d, plat, toFilePathV)
        THEN Returned(d, <<"fileExists">>, <<>>)
        ELSE LET r == delete(d, plat, to, [recursive |-> TRUE, useTrash |-> FALSE], fault)
             IN  [r EXCEPT !.calls = <<"fileExists">> \o r.calls]

\* validateTargetDeleted that treats no pair of paths as a case change.
validateTargetDeletedCaseBlind(d, plat, from, to, overwrite, fault) ==
    LET toFilePathV == toFilePath(to)
    IN  IF ~fileExists(d, plat, toFilePathV)
        THEN Returned(d, <<"fileExists">>, <<>>)
        ELSE IF ~overwrite
        THEN Thrown(d, <<"fileExists">>,
                 createFileSystemProviderError(NewError("File at target already exists"),
                                               "FileExists"))
        ELSE LET r == delete(d, plat, to, [recursive |-> TRUE, useTrash |-> FALSE], fault)
             IN  [r EXCEPT !.calls = <<"fileExists">> \o r.calls]

\* validateTargetDeleted
validateTargetDeleted(d, plat, from, to, overwrite, fault) ==
    LET fromFilePath == toFilePath(from)
        toFilePathV  == toFilePath(to)
        isCaseChange == IF isPathCaseSensitive(plat) THEN FALSE
                        ELSE isEqual(fromFilePath, toFilePathV, TRUE)
    IN  IF isCaseChange
        THEN Returned(d, <<>>, <<>>)
        ELSE IF ~fileExists(d, plat, toFilePathV)
        THEN Returned(d, <<"fileExists">>, <<>>)
        ELSE IF ~overwrite
        THEN Thrown(d, <<"fileExists">>,
                 createFileSystemProviderError(NewError("File at target already exists"),
                                               "FileExists"))
        ELSE LET r == delete(d, plat, to, [recursive |-> TRUE, useTrash |-> FALSE], fault)
             IN  [r EXCEPT !.calls = <<"fileExists">> \o r.calls]

\* The catch of rename / copy that rewrites EINVAL only.
rewriteErrorEINVAL(error, message) ==
    IF error.code = "EINVAL"
    THEN NewError(message)
    ELSE error

\* The catch of rename / copy: some errors are rewritten to a readable one.
rewriteError(error, message) ==
    IF error.code \in {"EINVAL", "EBUSY", "ENAMETOOLONG"}
    THEN NewError(message)
    ELSE error

\* rename that copies the source to the target and leaves the source.
renameCopying(d, plat, from, to, opts, f) ==
    LET v == validateTargetDeleted(d, plat, from, to, opts.overwrite, f.delete)
        missing == ~fileExists(v.disk, plat, toFilePath(from))
        failure == IF f.move # "ok" THEN ErrnoException(f.move)
                   ELSE ErrnoException("ENOENT")
    IN  IF v.error # NoError
        THEN Thrown(v.disk, v.calls,
                 toFileSystemProviderError(rewriteError(v.error, "Unable to move")))
        ELSE IF f.move # "ok" \/ missing
        THEN Thrown(v.disk, v.calls \o <<"move">>,
                 toFileSystemProviderError(rewriteError(failure, "Unable to move")))
        ELSE Returned(fsCopy(v.disk, plat, toFilePath(from), toFilePath(to), "keep"),
                      v.calls \o <<"move">>, <<>>)

\* rename
rename(d, plat, from, to, opts, f) ==
    LET v == validateTargetDeleted(d, plat, from, to, opts.overwrite, f.delete)
        missing == ~fileExists(v.disk, plat, toFilePath(from))
        failure == IF f.move # "ok" THEN ErrnoException(f.move)
                   ELSE ErrnoException("ENOENT")
    IN  IF v.error # NoError
        THEN Thrown(v.disk, v.calls,
                 toFileSystemProviderError(rewriteError(v.error, "Unable to move")))
        ELSE IF f.move # "ok" \/ missing
        THEN Thrown(v.disk, v.calls \o <<"move">>,
                 toFileSystemProviderError(rewriteError(failure, "Unable to move")))
        ELSE Returned(fsMove(v.disk, plat, toFilePath(from), toFilePath(to)),
                      v.calls \o <<"move">>, <<>>)

\* copy
copy(d, plat, from, to, opts, f) ==
    LET v == validateTargetDeleted(d, plat, from, to, opts.overwrite, f.delete)
        missing == ~fileExists(v.disk, plat, toFilePath(from))
        failure == IF f.copy # "ok" THEN ErrnoException(f.copy)
                   ELSE ErrnoException("ENOENT")
    IN  IF v.error # NoError
        THEN Thrown(v.disk, v.calls,
                 toFileSystemProviderError(rewriteError(v.error, "Unable to copy")))
        ELSE IF f.copy # "ok" \/ missing
        THEN Thrown(v.disk, v.calls \o <<"copy">>,
                 toFileSystemProviderError(rewriteError(failure, "Unable to copy")))
        ELSE Returned(fsCopy(v.disk, plat, toFilePath(from), toFilePath(to), f.selfCopy),
                      v.calls \o <<"copy">>, <<>>)

(***************************************************************************)
(* LegacyRemoteFileService: the registry of providers by scheme and the    *)
(* calls that go through it.  A path is its sequence of characters.        *)
(***************************************************************************)
Schemes == {"a", "b"}

ServicePaths == {<<"/", "f">>, <<"f">>, <<>>}

ServiceResources == [scheme : Schemes \cup {"file"}, path : ServicePaths]

ServiceOps == {"resolveContent", "resolveStreamContent", "createFile", "updateContent"}

\* resources.isAbsolutePath
isAbsolutePath(resource) == Len(resource.path) > 0 /\ resource.path[1] = "/"

FileOperationError(message, fileOperationResult) ==
    [name |-> "FileOperationError", code |-> fileOperationResult, message |-> message]

\* toFileOperationResult
toFileOperationResult(error) ==
    IF error.name = "FileOperationError" THEN error.code ELSE "FILE_OTHER_ERROR"

NoCall ==
    [op |-> "none", resource |-> [scheme |-> "file", path |-> <<>>], stage |-> "none",
     steps |-> <<>>, error |-> NoError, provider |-> 0]

\* registerProvider
registerProvider(providers, scheme, provider) ==
    IF providers[scheme] # 0
    THEN [providers |-> providers,
          error |-> NewError("a provider for that scheme is already registered")]
    ELSE [providers |-> [providers EXCEPT ![scheme] = provider], error |-> NoError]

\* registerProvider: dispose of the object it returns
registerProviderDispose(providers, scheme) == [providers EXCEPT ![scheme] = 0]

\* _withProvider that starts the activation before it looks at the path.
_withProviderActivatingFirst(resource) ==
    [error |-> IF isAbsolutePath(resource) THEN NoError
               ELSE FileOperationError("The path of resource must be absolute",
                                       "FILE_INVALID_PATH"),
     steps |-> <<"activateProvider">>]

\* _withProvider: up to the call of activateProvider
_withProvider(resource) ==
    IF ~isAbsolutePath(resource)
    THEN [error |-> FileOperationError("The path of resource must be absolute",
                                       "FILE_INVALID_PATH"),
          steps |-> <<>>]
    ELSE [error |-> NoError, steps |-> <<"activateProvider">>]

\* _withProvider: once the activation has resolved
_withProviderThen(providers, resource) ==
    IF providers[resource.scheme] = 0
    THEN [provider |-> 0,
          error |-> [name |-> "ENOPRO", code |-> "", message |-> "no provider for"]]
    ELSE [provider |-> providers[resource.scheme], error |-> NoError]

\* _throwIfFileSystemIsReadonly
_throwIfFileSystemIsReadonly(readonly) ==
    IF readonly
    THEN FileOperationError("Resource can not be modified.", "FILE_PERMISSION_DENIED")
    ELSE NoError

\* The call c settled with the error.
Rejected(c, steps, error) ==
    [c EXCEPT !.stage = "rejected", !.steps = c.steps \o steps, !.error = error]

\* The call c settled with a value, having used the provider.
Resolved(c, steps, provider) ==
    [c EXCEPT !.stage = "resolved", !.steps = c.steps \o steps, !.provider = provider]

\* _readFile: after _withProvider
_readFile(c, providers, fileIsDirectory) ==
    LET w == _withProviderThen(providers, c.resource)
    IN  IF w.error # NoError THEN Rejected(c, <<"get">>, w.error)
        ELSE IF fileIsDirectory
        THEN Rejected(c, <<"get", "resolve">>,
                      FileOperationError("File is directory", "FILE_IS_DIRECTORY"))
        ELSE Resolved(c, <<"get", "resolve", "provider">>, w.provider)

\* updateContent: after _withProvider
updateContent(c, providers, readonly) ==
    LET w == _withProviderThen(providers, c.resource)
    IN  IF w.error # NoError THEN Rejected(c, <<"get">>, w.error)
        ELSE IF _throwIfFileSystemIsReadonly(readonly[w.provider]) # NoError
        THEN Rejected(c, <<"get">>, _throwIfFileSystemIsReadonly(readonly[w.provider]))
        ELSE Resolved(c, <<"get", "createFolder", "provider", "resolve">>, w.provider)

\* createFile: after _withProvider
createFile(c, providers, readonly) ==
    LET r == updateContent(c, providers, readonly)
    IN  IF r.error # NoError
        THEN [r EXCEPT !.error = FileOperationError("Failed to create file",
                                                    toFileOperationResult(r.error))]
        ELSE [r EXCEPT !.steps = r.steps \o <<"fire">>]

\* LegacyFileService: the operations on the resources of the file scheme
superCall(op, resource) ==
    IF ~isAbsolutePath(resource)
    THEN [NoCall EXCEPT !.op = op, !.resource = resource, !.stage = "rejected",
                        !.error = FileOperationError("The path of resource must be absolute",
                                                     "FILE_INVALID_PATH")]
    ELSE [NoCall EXCEPT !.op = op, !.resource = resource, !.stage = "resolved",
                        !.steps = <<"super">>]

(***************************************************************************)
(* Observers of the state.                                                 *)
(***************************************************************************)
AliveRecursive == {i \in 1..Len(instances) : instances[i].alive}

AliveNonRecursive == {i \in 1..Len(nonRecursive) : nonRecursive[i].alive}

\* The kind of the live watcher the coordinator holds, "none" without one.
LiveKind ==
    IF recursiveWatcher # 0 /\ instances[recursiveWatcher].alive
    THEN instances[recursiveWatcher].kind
    ELSE "none"

\* burst.kind: "none" (no call since the last recomputation), "reg" (one
\* registration), "regUnreg" (one registration, then its disposal), "other",
\* or "cancelled" (the provider was disposed with calls pending).
\* burst.pre: LiveKind when the burst began.
NoBurst == [kind |-> "none", pre |-> "none"]

\* The burst after one more call: op is "watch" or "dispose", id its registration.
NextBurst(op, id) ==
    [kind |-> IF burst.kind = "none" /\ op = "watch" THEN "reg"
              ELSE IF burst.kind = "reg" /\ op = "dispose" /\ id = regs
                   THEN "regUnreg"
                   ELSE "other",
     pre  |-> IF burst.kind = "none" THEN LiveKind ELSE burst.pre]

\* lastRun: the burst the last recomputation answered, the number of folders
\* it read, and how many live instances it disposed and how many it constructed.
NoRun == [burst |-> "none", pre |-> "none", n |-> 0, disposed |-> 0, created |-> 0]

(***************************************************************************)
(* Init and the operations.                                                *)
(***************************************************************************)
InitWatch ==
    /\ recursiveWatcher = 0
    /\ recursiveFoldersToWatch = <<>>
    /\ instances = <<>>
    /\ nonRecursive = <<>>
    /\ regs = 0
    /\ timeouts = 0
    /\ providerDisposed = FALSE
    /\ changeStream = <<>>
    /\ errorStream = <<>>
    /\ reports = <<>>
    /\ disposedRegs = {}
    /\ nonRecursiveCalls = 0
    /\ burst = NoBurst
    /\ lastRun = NoRun

NoWrite == [set |-> FALSE, path |-> <<>>, content |-> <<>>, calls |-> <<>>]

NoOp ==
    [op |-> "none", resource |-> URI(<<>>), target |-> URI(<<>>), content |-> <<>>,
     opts |-> <<>>, fault |-> "ok", before |-> <<>>, calls |-> <<>>,
     error |-> NoError, value |-> <<>>, wrote |-> NoWrite]

\* LegacyRemoteFileService: constructor
InitService ==
    /\ _provider = [scheme \in Schemes |-> 0]
    /\ registrations = <<>>
    /\ lastCall = NoCall

\* The state after construction; no file operation is made on the disk.
Init ==
    /\ platform \in Platforms
    /\ InitWatch
    /\ disk = [n \in DiskNames |-> Absent]
    /\ lastOp = NoOp
    /\ InitService

\* The state after construction over any disk with directories.
InitOps ==
    /\ platform \in Platforms
    /\ InitWatch
    /\ disk \in DisksWithDirectories(platform)
    /\ lastOp = NoOp
    /\ InitService

\* The state after construction over any disk the platform can hold.
InitFS ==
    /\ platform \in Platforms
    /\ InitWatch
    /\ disk \in Disks(platform)
    /\ lastOp = NoOp
    /\ InitService

\* watch(resource, {recursive: true, excludes})
WatchRecursive(resource, excludes) ==
    /\ regs < MaxRegs
    /\ regs' = regs + 1
    /\ recursiveFoldersToWatch' =
           watchRecursive(recursiveFoldersToWatch, regs + 1, resource, excludes)
    /\ timeouts' = refreshRecursiveWatchers(timeouts)
    /\ burst' = NextBurst("watch", regs + 1)
    /\ UNCHANGED <<platform, recursiveWatcher, instances, nonRecursive,
                   providerDisposed, changeStream, errorStream, reports,
                   disposedRegs, nonRecursiveCalls, lastRun, fsVars, serviceVars>>

\* dispose() of the disposable registration id received, any number of times
DisposeRegistration(id) ==
    /\ id \in 1..regs
    /\ recursiveFoldersToWatch' = watchRecursiveDispose(recursiveFoldersToWatch, id)
    /\ timeouts' = refreshRecursiveWatchers(timeouts)
    /\ burst' = NextBurst("dispose", id)
    /\ disposedRegs' = disposedRegs \cup {id}
    /\ UNCHANGED <<platform, recursiveWatcher, instances, nonRecursive, regs,
                   providerDisposed, changeStream, errorStream, reports,
                   nonRecursiveCalls, lastRun, fsVars, serviceVars>>

\* The delayer's timer fires: the queued recomputation runs.
TimeoutFires ==
    /\ timeouts > 0
    /\ LET r == doRefreshRecursiveWatchers(platform, recursiveWatcher, instances,
                                           recursiveFoldersToWatch)
       IN  /\ Len(r.instances) <= MaxInstances
           /\ recursiveWatcher' = r.recursiveWatcher
           /\ instances' = r.instances
           /\ lastRun' =
                  [burst    |-> burst.kind,
                   pre      |-> burst.pre,
                   n        |-> Len(recursiveFoldersToWatch),
                   disposed |-> Cardinality({i \in AliveRecursive :
                                                 ~r.instances[i].alive}),
                   created  |-> Len(r.instances) - Len(instances)]
    /\ timeouts' = timeouts - 1
    /\ burst' = NoBurst
    /\ UNCHANGED <<platform, recursiveFoldersToWatch, nonRecursive, regs,
                   providerDisposed, changeStream, errorStream, reports,
                   disposedRegs, nonRecursiveCalls, fsVars, serviceVars>>

\* watch(resource, {recursive: false})
WatchNonRecursive(resource) ==
    /\ nonRecursiveCalls < MaxNonRecursive
    /\ nonRecursiveCalls' = nonRecursiveCalls + 1
    /\ nonRecursive' = watchNonRecursive(nonRecursive, resource)
    /\ UNCHANGED <<platform, recursiveWatcher, recursiveFoldersToWatch, instances,
                   regs, timeouts, providerDisposed, changeStream, errorStream,
                   reports, disposedRegs, burst, lastRun, fsVars, serviceVars>>

\* The caller of a non-recursive watch() disposes the watcher it received.
DisposeNonRecursive(i) ==
    /\ i \in AliveNonRecursive
    /\ nonRecursive' = [nonRecursive EXCEPT ![i].alive = FALSE]
    /\ UNCHANGED <<platform, recursiveWatcher, recursiveFoldersToWatch, instances,
                   regs, timeouts, providerDisposed, changeStream, errorStream,
                   reports, disposedRegs, nonRecursiveCalls, burst, lastRun, fsVars, serviceVars>>

\* dispose() of the provider that also stops the watchers handed to callers.
providerDisposeAll(w, insts, t, nonrec) ==
    [timeouts |-> DelayerDispose(t),
     instances |-> dispose(insts, w),
     recursiveWatcher |-> 0,
     nonRecursive |-> [i \in 1..Len(nonrec) |-> [nonrec[i] EXCEPT !.alive = FALSE]]]

\* dispose() of the provider: super.dispose() disposes what was registered
\* (the two emitters and the delayer), then the recursive watcher is disposed
\* and the field cleared.  The non-recursive watchers are not touched.
providerDispose(w, insts, t, nonrec) ==
    [timeouts |-> DelayerDispose(t),
     instances |-> dispose(insts, w),
     recursiveWatcher |-> 0,
     nonRecursive |-> nonrec]

ProviderDispose ==
    /\ ~providerDisposed
    /\ providerDisposed' = TRUE
    /\ LET r == providerDispose(recursiveWatcher, instances, timeouts, nonRecursive)
       IN  /\ timeouts' = r.timeouts
           /\ instances' = r.instances
           /\ recursiveWatcher' = r.recursiveWatcher
           /\ nonRecursive' = r.nonRecursive
    /\ burst' = IF burst.kind = "none" THEN burst
                ELSE [burst EXCEPT !.kind = "cancelled"]
    /\ UNCHANGED <<platform, recursiveFoldersToWatch, regs, changeStream,
                   errorStream, reports, disposedRegs, nonRecursiveCalls, lastRun,
                   fsVars, serviceVars>>

\* A live recursive watcher reports a batch of changes.
RecursiveWatcherChange(i, changes) ==
    /\ i \in AliveRecursive
    /\ Len(reports) < MaxReports
    /\ reports' = Append(reports,
           [what |-> "change", value |-> changes])
    /\ changeStream' = onChange(changeStream, changes)
    /\ UNCHANGED <<platform, recursiveWatcher, recursiveFoldersToWatch, instances,
                   nonRecursive, regs, timeouts, providerDisposed, errorStream,
                   disposedRegs, nonRecursiveCalls, burst, lastRun, fsVars, serviceVars>>

\* A live recursive watcher reports an error.
RecursiveWatcherError(i, message) ==
    /\ i \in AliveRecursive
    /\ Len(reports) < MaxReports
    /\ reports' = Append(reports,
           [what |-> "error", value |-> message])
    /\ errorStream' = onError(errorStream, message)
    /\ UNCHANGED <<platform, recursiveWatcher, recursiveFoldersToWatch, instances,
                   nonRecursive, regs, timeouts, providerDisposed, changeStream,
                   disposedRegs, nonRecursiveCalls, burst, lastRun, fsVars, serviceVars>>

\* A live non-recursive watcher reports a batch of changes.
NonRecursiveWatcherChange(i, changes) ==
    /\ i \in AliveNonRecursive
    /\ Len(reports) < MaxReports
    /\ reports' = Append(reports,
           [what |-> "change", value |-> changes])
    /\ changeStream' = onChange(changeStream, changes)
    /\ UNCHANGED <<platform, recursiveWatcher, recursiveFoldersToWatch, instances,
                   nonRecursive, regs, timeouts, providerDisposed, errorStream,
                   disposedRegs, nonRecursiveCalls, burst, lastRun, fsVars, serviceVars>>

\* A live non-recursive watcher reports an error.
NonRecursiveWatcherError(i, message) ==
    /\ i \in AliveNonRecursive
    /\ Len(reports) < MaxReports
    /\ reports' = Append(reports,
           [what |-> "error", value |-> message])
    /\ errorStream' = onError(errorStream, message)
    /\ UNCHANGED <<platform, recursiveWatcher, recursiveFoldersToWatch, instances,
                   nonRecursive, regs, timeouts, providerDisposed, changeStream,
                   disposedRegs, nonRecursiveCalls, burst, lastRun, fsVars, serviceVars>>

\* The provider keeps no state between file operations: each one is taken
\* from the initial disk, and a read may follow a write.
Record(op, resource, target, content, opts, fault, r, wrote) ==
    [op |-> op, resource |-> resource, target |-> target, content |-> content,
     opts |-> opts, fault |-> fault, before |-> disk, calls |-> r.calls,
     error |-> r.error, value |-> r.value, wrote |-> wrote]

\* readFile(resource)
ReadFile(resource, fault) ==
    /\ lastOp.op \in {"none", "writeFile"}
    /\ LET r == readFile(disk, platform, resource, fault)
       IN  /\ disk' = r.disk
           /\ lastOp' = Record("readFile", resource, resource, <<>>, <<>>, fault, r,
                               lastOp.wrote)
    /\ UNCHANGED <<watchVars, serviceVars>>

\* writeFile(resource, content, opts)
WriteFile(resource, content, opts, f) ==
    /\ lastOp.op = "none"
    /\ LET r == writeFile(disk, platform, resource, content, opts, f)
       IN  /\ disk' = r.disk
           /\ lastOp' = Record("writeFile", resource, resource, content, opts, "ok", r,
                               IF r.error = NoError
                               THEN [set |-> TRUE, path |-> toFilePath(resource),
                                     content |-> content, calls |-> r.calls]
                               ELSE NoWrite)
    /\ UNCHANGED <<watchVars, serviceVars>>

\* delete(resource, opts)
Delete(resource, opts, fault) ==
    /\ lastOp.op = "none"
    /\ LET r == delete(disk, platform, resource, opts, fault)
       IN  /\ disk' = r.disk
           /\ lastOp' = Record("delete", resource, resource, <<>>, opts, "ok", r, NoWrite)
    /\ UNCHANGED <<watchVars, serviceVars>>

\* rename(from, to, opts)
Rename(from, to, opts, f) ==
    /\ lastOp.op = "none"
    /\ LET r == rename(disk, platform, from, to, opts, f)
       IN  /\ disk' = r.disk
           /\ lastOp' = Record("rename", from, to, <<>>, opts, f, r, NoWrite)
    /\ UNCHANGED <<watchVars, serviceVars>>

\* copy(from, to, opts)
Copy(from, to, opts, f) ==
    /\ lastOp.op = "none"
    /\ LET r == copy(disk, platform, from, to, opts, f)
       IN  /\ disk' = r.disk
           /\ lastOp' = Record("copy", from, to, <<>>, opts, f, r, NoWrite)
    /\ UNCHANGED <<watchVars, serviceVars>>

\* stat(resource)
Stat(resource, fault) ==
    /\ lastOp.op = "none"
    /\ LET r == stat(disk, platform, resource, fault)
       IN  /\ disk' = r.disk
           /\ lastOp' = Record("stat", resource, resource, <<>>, <<>>, fault, r, NoWrite)
    /\ UNCHANGED <<watchVars, serviceVars>>

\* readdir(resource)
Readdir(resource, fault, failing) ==
    /\ lastOp.op = "none"
    /\ LET r == readdir(disk, platform, resource, fault, failing)
       IN  /\ disk' = r.disk
           /\ lastOp' = Record("readdir", resource, resource, <<>>, <<>>,
                               [list |-> fault, failing |-> failing], r, NoWrite)
    /\ UNCHANGED <<watchVars, serviceVars>>

\* mkdir(resource)
Mkdir(resource, fault) ==
    /\ lastOp.op = "none"
    /\ LET r == mkdir(disk, platform, resource, fault)
       IN  /\ disk' = r.disk
           /\ lastOp' = Record("mkdir", resource, resource, <<>>, <<>>, fault, r, NoWrite)
    /\ UNCHANGED <<watchVars, serviceVars>>

\* open(resource, opts)
Open(resource, opts, fault) ==
    /\ lastOp.op = "none"
    /\ LET r == open(disk, platform, resource, opts, fault)
       IN  /\ disk' = r.disk
           /\ lastOp' = Record("open", resource, resource, <<>>, opts, fault, r, NoWrite)
    /\ UNCHANGED <<watchVars, serviceVars>>

\* The descriptor a caller holds: the one the last open returned, else one
\* that is not open.
HeldFd ==
    IF lastOp.op = "open" /\ lastOp.error = NoError THEN lastOp.value ELSE ClosedFd

\* close(fd)
Close(fault) ==
    /\ lastOp.op \in {"none", "open"}
    /\ LET r == close(disk, HeldFd, fault)
       IN  /\ disk' = r.disk
           /\ lastOp' = Record("close", URI(HeldFd.path), URI(HeldFd.path), <<>>,
                               HeldFd, fault, r, NoWrite)
    /\ UNCHANGED <<watchVars, serviceVars>>

\* read(fd, pos, data, 0, length)
Read(pos, length, fault) ==
    /\ lastOp.op \in {"none", "open"}
    /\ LET r == read(disk, HeldFd, pos, length, fault)
       IN  /\ disk' = r.disk
           /\ lastOp' = Record("read", URI(HeldFd.path), URI(HeldFd.path), <<>>,
                               HeldFd, fault, r, NoWrite)
    /\ UNCHANGED <<watchVars, serviceVars>>

\* write(fd, pos, data, 0, data.length)
Write(pos, data, fault) ==
    /\ lastOp.op \in {"none", "open"}
    /\ LET r == write(disk, HeldFd, pos, data, fault)
       IN  /\ disk' = r.disk
           /\ lastOp' = Record("write", URI(HeldFd.path), URI(HeldFd.path), data,
                               HeldFd, fault, r, NoWrite)
    /\ UNCHANGED <<watchVars, serviceVars>>

\* registerProvider(scheme, provider): the provider is numbered by the call.
RegisterProvider(scheme, readonly) ==
    /\ Len(registrations) < MaxProviders
    /\ LET r == registerProvider(_provider, scheme, Len(registrations) + 1)
       IN  /\ _provider' = r.providers
           /\ registrations' = Append(registrations,
                  [scheme |-> scheme, readonly |-> readonly,
                   threw |-> r.error # NoError, disposed |-> FALSE])
    /\ UNCHANGED <<watchVars, fsVars, lastCall>>

\* dispose() of the object the i-th registerProvider returned, any number of
\* times.
DisposeProvider(i) ==
    /\ i \in 1..Len(registrations)
    /\ ~registrations[i].threw
    /\ _provider' = registerProviderDispose(_provider, registrations[i].scheme)
    /\ registrations' = [registrations EXCEPT ![i].disposed = TRUE]
    /\ UNCHANGED <<watchVars, fsVars, lastCall>>

\* resolveContent, resolveStreamContent, createFile, updateContent: the
\* synchronous part of the call.
ServiceCall(op, resource) ==
    /\ lastCall.stage # "activating"
    /\ lastCall' =
           IF resource.scheme = "file"
           THEN superCall(op, resource)
           ELSE LET w == _withProvider(resource)
                IN  [NoCall EXCEPT !.op = op, !.resource = resource,
                                   !.stage = IF w.error = NoError
                                             THEN "activating" ELSE "thrown",
                                   !.steps = w.steps, !.error = w.error]
    /\ UNCHANGED <<watchVars, fsVars, _provider, registrations>>

\* The promise of activateProvider resolves and the call goes on.
ActivationResolves(isDir) ==
    /\ lastCall.stage = "activating"
    /\ LET readonly == [i \in 1..Len(registrations) |-> registrations[i].readonly]
       IN  lastCall' =
               CASE lastCall.op \in {"resolveContent", "resolveStreamContent"}
                        -> _readFile(lastCall, _provider, isDir)
                 [] lastCall.op = "createFile"
                        -> createFile(lastCall, _provider, readonly)
                 [] OTHER -> updateContent(lastCall, _provider, readonly)
    /\ UNCHANGED <<watchVars, fsVars, _provider, registrations>>

(***************************************************************************)
(* Spec: the recursive watch coordinator under every registration,         *)
(* disposal, recomputation and provider disposal.                          *)
(***************************************************************************)
Next ==
    \/ \E r \in WatchResources, e \in ExcludeSets : WatchRecursive(r, e)
    \/ \E id \in 1..MaxRegs : DisposeRegistration(id)
    \/ TimeoutFires
    \/ ProviderDispose

Spec == Init /\ [][Next]_vars

(***************************************************************************)
(* SpecWatchers: the coordinator over one folder descriptor, together with *)
(* the non-recursive watchers their callers own.                           *)
(***************************************************************************)
NextWatchers ==
    \/ regs < MaxSideRegs /\ WatchRecursive(URI(<<"b">>), <<>>)
    \/ \E id \in 1..MaxRegs : DisposeRegistration(id)
    \/ TimeoutFires
    \/ ProviderDispose
    \/ WatchNonRecursive(URI(<<"b">>))
    \/ \E i \in 1..MaxNonRecursive : DisposeNonRecursive(i)

SpecWatchers == Init /\ [][NextWatchers]_vars

(***************************************************************************)
(* SpecEvents: watchers of every kind and what they report; each           *)
(* registration is disposed at most once.                                  *)
(***************************************************************************)
NextEvents ==
    \/ regs < MaxSideRegs /\ WatchRecursive(URI(<<"b">>), <<>>)
    \/ \E id \in 1..MaxRegs : id \notin disposedRegs /\ DisposeRegistration(id)
    \/ TimeoutFires
    \/ ProviderDispose
    \/ WatchNonRecursive(URI(<<"b">>))
    \/ \E i \in 1..MaxInstances, c \in DiskChangeBatches : RecursiveWatcherChange(i, c)
    \/ \E i \in 1..MaxInstances, m \in ErrorMessages : RecursiveWatcherError(i, m)
    \/ \E i \in 1..MaxNonRecursive, c \in DiskChangeBatches : NonRecursiveWatcherChange(i, c)
    \/ \E i \in 1..MaxNonRecursive, m \in ErrorMessages : NonRecursiveWatcherError(i, m)

SpecEvents == Init /\ [][NextEvents]_vars

(***************************************************************************)
(* SpecFS: one file operation on any disk, under every failure of the OS   *)
(* calls it makes; a read may follow a write.                              *)
(***************************************************************************)
WriteOpts == [create : BOOLEAN, overwrite : BOOLEAN]

OverwriteOpts == [overwrite : BOOLEAN]

DeleteOpts == [recursive : BOOLEAN, useTrash : {FALSE}]

WriteFaults == [truncate : PermOutcomes, update : 0..retries, write : PermOutcomes]

RenameFaults == [delete : PermOutcomes, move : Outcomes]

CopyFaults == [delete : PermOutcomes, copy : Outcomes, selfCopy : {"keep", "truncate"}]

NextFS ==
    \/ \E r \in FSResources, fault \in PermOutcomes : ReadFile(r, fault)
    \/ /\ lastOp.op = "none"
       /\ \/ \E r \in FSResources, c \in Contents, o \in WriteOpts, f \in WriteFaults :
                 WriteFile(r, c, o, f)
          \/ \E r \in FSResources, o \in DeleteOpts, fault \in PermOutcomes :
                 Delete(r, o, fault)
          \/ \E from \in FSResources, to \in FSResources, o \in OverwriteOpts,
                f \in RenameFaults : Rename(from, to, o, f)
          \/ \E from \in FSResources, to \in FSResources, o \in OverwriteOpts,
                f \in CopyFaults : Copy(from, to, o, f)

SpecFS == InitFS /\ [][NextFS]_vars

(***************************************************************************)
(* SpecOps: one operation of the provider on any disk with directories,    *)
(* under every failure of the OS calls it makes; close, read and write may *)
(* follow an open.                                                         *)
(***************************************************************************)
OpenOpts == [create : BOOLEAN]

NextOps ==
    \/ /\ lastOp.op = "none"
       /\ \/ \E r \in FSResources \cup {Root}, fault \in DeniedOutcomes : Stat(r, fault)
          \/ \E r \in FSResources \cup {Root}, fault \in DeniedOutcomes,
                failing \in SUBSET {"x", "X", "y"} : Readdir(r, fault, failing)
          \/ \E r \in FSResources, fault \in DeniedOutcomes : ReadFile(r, fault)
          \/ \E r \in FSResources, c \in Contents, o \in WriteOpts, f \in WriteFaults :
                 WriteFile(r, c, o, f)
          \/ \E r \in FSResources, o \in OpenOpts, fault \in DeniedOutcomes :
                 Open(r, o, fault)
          \/ \E r \in FSResources \cup {Root}, fault \in DeniedOutcomes : Mkdir(r, fault)
          \/ \E r \in FSResources, o \in DeleteOpts, fault \in DeniedOutcomes :
                 Delete(r, o, fault)
          \/ \E from \in FSResources, to \in FSResources, o \in OverwriteOpts,
                f \in RenameFaults : Rename(from, to, o, f)
          \/ \E from \in FSResources, to \in FSResources, o \in OverwriteOpts,
                f \in CopyFaults : Copy(from, to, o, f)
    \/ /\ lastOp.op \in {"none", "open"}
       /\ \/ \E fault \in DeniedOutcomes : Close(fault)
          \/ \E pos \in 0..MaxLen, length \in 0..MaxLen, fault \in DeniedOutcomes :
                 Read(pos, length, fault)
          \/ \E pos \in 0..MaxLen, c \in Contents, fault \in DeniedOutcomes :
                 Write(pos, c, fault)

SpecOps == InitOps /\ [][NextOps]_vars

(***************************************************************************)
(* Properties of the watch coordinator.                                    *)
(***************************************************************************)
\* C1: in every reachable state at most one recursive watcher instance is
\* alive (constructed and not disposed), whatever the number of folders.
C1_AtMostOneAlive == Cardinality(AliveRecursive) <= 1

\* A second instance was constructed, the first is disposed, two folders
\* are watched by the one that is alive.
C1_Witness ==
    /\ Len(instances) >= 2
    /\ Cardinality(AliveRecursive) = 1
    /\ Len(recursiveFoldersToWatch) >= 2
    /\ LiveKind = "Nsfw"

\* C2 as stated: from any state of the coordinator, the recomputation that
\* answers a registration followed by its disposal disposes no watcher
\* instance and constructs none.
C2_Original ==
    lastRun.burst = "regUnreg" => lastRun.disposed = 0 /\ lastRun.created = 0

\* C2 amended: the recomputation that answers a registration followed by its
\* disposal disposes and constructs nothing when the multi-folder watcher is
\* active, or when no watcher is active and no folder is registered; when a
\* single-folder watcher is active it disposes that watcher and constructs
\* one watcher for the one folder that remains.
C2_Amended ==
    lastRun.burst = "regUnreg" =>
        /\ (lastRun.pre = "Nsfw" \/ (lastRun.pre = "none" /\ lastRun.n = 0))
               => lastRun.disposed = 0 /\ lastRun.created = 0
        /\ lastRun.pre \in {"Unix", "Windows"}
               => lastRun.n = 1 /\ lastRun.disposed = 1 /\ lastRun.created = 1

\* The recomputation answered register-then-dispose under the multi-folder
\* watcher, which is still the active one.
C2_Witness ==
    /\ lastRun.burst = "regUnreg"
    /\ lastRun.pre = "Nsfw"
    /\ burst.kind = "none"
    /\ LiveKind = "Nsfw"

\* C3: at most one recomputation is ever queued; a burst of register and
\* unregister calls leaves exactly one queued; once it has run none is queued
\* and the active watcher watches the folder set as the last call left it.
C3_OneRunPerBurst ==
    /\ timeouts <= 1
    /\ burst.kind \in {"reg", "regUnreg", "other"} => timeouts = 1
    /\ burst.kind = "none" => timeouts = 0
    /\ (burst.kind = "none" /\ LiveKind # "none")
           => instances[recursiveWatcher].folders = recursiveFoldersToWatch

\* One recomputation answered a burst of several calls made with no watcher
\* active, and the watcher it constructed watches the two folders left.
C3_Witness ==
    /\ lastRun.burst = "other"
    /\ lastRun.pre = "none"
    /\ lastRun.created = 1
    /\ burst.kind = "none"
    /\ LiveKind = "Nsfw"
    /\ Len(recursiveFoldersToWatch) = 2

\* C4: the folder set holds the descriptor of exactly the registrations made
\* and not disposed: disposing a registration removes its own descriptor and
\* no other.
C4_RemovesOwnDescriptor ==
    \A id \in 1..regs :
        (\E i \in 1..Len(recursiveFoldersToWatch) : recursiveFoldersToWatch[i].id = id)
            <=> id \notin disposedRegs

\* C5: the step that disposes the provider leaves it with no recursive
\* watcher and no recursive instance alive, and changes no non-recursive
\* watcher; a non-recursive watcher stops only in a step of its caller, which
\* leaves the provider and its coordinator as they were.
C5_DisposeRecursiveOnly ==
    [][/\ (~providerDisposed /\ providerDisposed')
              => /\ recursiveWatcher' = 0
                 /\ \A i \in 1..Len(instances') : ~instances'[i].alive
                 /\ Len(instances') = Len(instances)
                 /\ nonRecursive' = nonRecursive
       /\ \A i \in AliveNonRecursive :
              ~nonRecursive'[i].alive
                  => UNCHANGED <<providerDisposed, recursiveWatcher, instances,
                                 recursiveFoldersToWatch, timeouts>>
      ]_vars

\* The provider was disposed while its only recursive watcher was active: that
\* one is disposed, a non-recursive watcher is still alive.
C5_Witness ==
    /\ providerDisposed
    /\ recursiveWatcher = 0
    /\ Len(instances) = 1
    /\ ~instances[1].alive
    /\ Len(recursiveFoldersToWatch) = 1
    /\ burst.kind = "none"
    /\ AliveNonRecursive # {}

\* C6: a non-recursive watch() call appends one new live NodeJS watcher for
\* the resource within the step, keeps the earlier ones, schedules no
\* recomputation and leaves folder set, active watcher and recursive
\* instances unchanged.
C6_NonRecursiveImmediate ==
    [][nonRecursiveCalls' = nonRecursiveCalls + 1
          => /\ Len(nonRecursive') = Len(nonRecursive) + 1
             /\ SubSeq(nonRecursive', 1, Len(nonRecursive)) = nonRecursive
             /\ nonRecursive'[Len(nonRecursive')].alive
             /\ nonRecursive'[Len(nonRecursive')].kind = "NodeJS"
             /\ UNCHANGED <<timeouts, recursiveFoldersToWatch, recursiveWatcher,
                            instances>>
      ]_vars

\* Two calls for the same resource gave two live instances, with a recursive
\* watcher active and nothing queued.
C6_Witness ==
    /\ nonRecursiveCalls = 2
    /\ Len(nonRecursive) = 2
    /\ nonRecursive[1].path = nonRecursive[2].path
    /\ AliveNonRecursive = {1, 2}
    /\ LiveKind # "none"
    /\ timeouts = 0

\* What the streams hold when every report was published once, in order: a
\* batch as the same changes on file URIs, an error as an Error of its message.
Published ==
    LET batches == SelectSeq(reports, LAMBDA r : r.what = "change")
        errors  == SelectSeq(reports, LAMBDA r : r.what = "error")
    IN  /\ Len(changeStream) = Len(batches)
        /\ \A i \in 1..Len(batches) :
               /\ Len(changeStream[i]) = Len(batches[i].value)
               /\ \A j \in 1..Len(batches[i].value) :
                      /\ changeStream[i][j].type = batches[i].value[j].type
                      /\ changeStream[i][j].resource.scheme = "file"
                      /\ changeStream[i][j].resource.path = batches[i].value[j].path
        /\ Len(errorStream) = Len(errors)
        /\ \A i \in 1..Len(errors) :
               /\ errorStream[i].name = "Error"
               /\ errorStream[i].message = errors[i].value

WriteCalls == {"truncate", "writeFile r+", "writeFile"}

Issued(calls) == {calls[i] : i \in 1..Len(calls)}

\* C8: writeFile on an existing resource without overwrite fails with
\* FileExists, on a missing resource without create with FileNotFound; in
\* both cases no truncate and no write was issued and the disk is unchanged.
C8_WriteFileValidates ==
    lastOp.op = "writeFile" =>
        LET exists == fileExists(lastOp.before, platform, toFilePath(lastOp.resource))
        IN  /\ (exists /\ ~lastOp.opts.overwrite)
                   => /\ lastOp.error.name = "FileSystemProviderError"
                      /\ lastOp.error.code = "FileExists"
                      /\ Issued(lastOp.calls) \cap WriteCalls = {}
                      /\ disk = lastOp.before
            /\ (~exists /\ ~lastOp.opts.create)
                   => /\ lastOp.error.name = "FileSystemProviderError"
                      /\ lastOp.error.code = "FileNotFound"
                      /\ Issued(lastOp.calls) \cap WriteCalls = {}
                      /\ disk = lastOp.before

\* writeFile with create and overwrite both false was refused on a missing
\* resource.
C8_Witness ==
    /\ lastOp.op = "writeFile"
    /\ ~lastOp.opts.create
    /\ ~lastOp.opts.overwrite
    /\ lastOp.error.code = "FileNotFound"
    /\ disk = lastOp.before

\* C9: a readFile that follows a successful writeFile of content c and names
\* the file written succeeds, unless the OS read fails, and returns c.
C9_WriteThenRead ==
    (/\ lastOp.op = "readFile"
     /\ lastOp.wrote.set
     /\ isEqual(toFilePath(lastOp.resource), lastOp.wrote.path,
                ~isPathCaseSensitive(platform))
     /\ lastOp.fault = "ok")
        => lastOp.error = NoError /\ lastOp.value = lastOp.wrote.content

\* The empty content was written over a longer one on the truncate path, the
\* first r+ attempt failing, and read back.
C9_Witness ==
    /\ lastOp.op = "readFile"
    /\ lastOp.wrote.set
    /\ lastOp.wrote.calls = <<"fileExists", "truncate", "writeFile r+", "writeFile r+">>
    /\ lastOp.wrote.content = <<>>
    /\ lastOp.resource = URI(lastOp.wrote.path)
    /\ lastOp.value = <<>>
    /\ lastOp.error = NoError

\* `to` is a case variant of `from`: the provider is case-insensitive and the
\* two paths are equal up to case.
CaseVariant(from, to) ==
    /\ ~isPathCaseSensitive(platform)
    /\ isEqual(toFilePath(from), toFilePath(to), TRUE)

\* C10: rename and copy without overwrite onto an existing target that is not
\* a case variant of the source fail with FileExists; no delete, move or copy
\* was issued and the disk is unchanged.
C10_NoOverwriteFails ==
    (/\ lastOp.op \in {"rename", "copy"}
     /\ ~lastOp.opts.overwrite
     /\ fileExists(lastOp.before, platform, toFilePath(lastOp.target))
     /\ ~CaseVariant(lastOp.resource, lastOp.target))
        => /\ lastOp.error.name = "FileSystemProviderError"
           /\ lastOp.error.code = "FileExists"
           /\ lastOp.calls = <<"fileExists">>
           /\ disk = lastOp.before

\* A copy without overwrite was refused with source and target both present
\* and different.
C10_Witness ==
    /\ lastOp.op = "copy"
    /\ ~lastOp.opts.overwrite
    /\ lastOp.error.code = "FileExists"
    /\ fileExists(disk, platform, toFilePath(lastOp.resource))
    /\ fileExists(disk, platform, toFilePath(lastOp.target))
    /\ resolve(disk, platform, toFilePath(lastOp.resource))
           # resolve(disk, platform, toFilePath(lastOp.target))
    /\ disk = lastOp.before

\* C11: rename with overwrite onto an existing target that is another file
\* than the existing source and not a case variant of it succeeds when no OS
\* call fails; the target then holds what the source held and the source no
\* longer exists.
C11_RenameOverwrites ==
    (/\ lastOp.op = "rename"
     /\ lastOp.opts.overwrite
     /\ lastOp.fault.delete = "ok"
     /\ lastOp.fault.move = "ok"
     /\ fileExists(lastOp.before, platform, toFilePath(lastOp.resource))
     /\ fileExists(lastOp.before, platform, toFilePath(lastOp.target))
     /\ ~CaseVariant(lastOp.resource, lastOp.target)
     /\ toFilePath(lastOp.resource) # toFilePath(lastOp.target))
        => /\ lastOp.error = NoError
           /\ lastOp.calls = <<"fileExists", "rimraf", "move">>
           /\ fileExists(disk, platform, toFilePath(lastOp.target))
           /\ disk[resolve(disk, platform, toFilePath(lastOp.target))]
                  = lastOp.before[resolve(lastOp.before, platform,
                                          toFilePath(lastOp.resource))]
           /\ ~fileExists(disk, platform, toFilePath(lastOp.resource))

\* A rename with overwrite replaced a target that held other content than
\* the source.
C11_Witness ==
    /\ lastOp.op = "rename"
    /\ lastOp.opts.overwrite
    /\ lastOp.error = NoError
    /\ lastOp.calls = <<"fileExists", "rimraf", "move">>
    /\ lastOp.before[resolve(lastOp.before, platform, toFilePath(lastOp.target))]
           # lastOp.before[resolve(lastOp.before, platform, toFilePath(lastOp.resource))]
    /\ ~fileExists(disk, platform, toFilePath(lastOp.resource))

\* The code the OS move / copy of the last rename / copy failed with, "ok"
\* when it was not called or did not fail.
MoveFailure ==
    IF /\ lastOp.op \in {"rename", "copy"}
       /\ lastOp.calls # <<>>
       /\ lastOp.calls[Len(lastOp.calls)] \in {"move", "copy"}
       /\ lastOp.error # NoError
    THEN LET drawn == IF lastOp.op = "rename" THEN lastOp.fault.move
                      ELSE lastOp.fault.copy
         IN  IF drawn # "ok" THEN drawn ELSE "ENOENT"
    ELSE "ok"

\* C12: when the OS move or copy fails with EINVAL, EBUSY or ENAMETOOLONG the
\* error thrown carries the 'Unable to move / copy' message and the taxonomy
\* code the original error normalizes to; with any other code it carries the
\* original message and the code the original error normalizes to.
C12_RewrittenErrors ==
    MoveFailure # "ok" =>
        LET original == ErrnoException(MoveFailure)
        IN  /\ lastOp.error.name = "FileSystemProviderError"
            /\ lastOp.error.code = toFileSystemProviderError(original).code
            /\ lastOp.error.message =
                   IF MoveFailure \in {"EINVAL", "EBUSY", "ENAMETOOLONG"}
                   THEN (IF lastOp.op = "rename" THEN "Unable to move"
                         ELSE "Unable to copy")
                   ELSE original.message

\* A copy failed in the OS copy with ENAMETOOLONG and threw the readable
\* message with code Unknown.
C12_Witness ==
    /\ lastOp.op = "copy"
    /\ MoveFailure = "ENAMETOOLONG"
    /\ lastOp.error.message = "Unable to copy"
    /\ lastOp.error.code = "Unknown"

(***************************************************************************)
(* SpecRegistry: the provider registry of the file service and the calls   *)
(* that look a provider up.                                                *)
(***************************************************************************)
NextRegistry ==
    \/ \E scheme \in Schemes, readonly \in BOOLEAN : RegisterProvider(scheme, readonly)
    \/ \E i \in 1..MaxProviders : DisposeProvider(i)
    \/ \E op \in ServiceOps, resource \in ServiceResources : ServiceCall(op, resource)
    \/ \E isDir \in BOOLEAN : ActivationResolves(isDir)

SpecRegistry == Init /\ [][NextRegistry]_vars

(***************************************************************************)
(* Properties of writeFile on the platform that truncates first.           *)
(***************************************************************************)
\* The number of times the OS call was issued.
Count(calls, call) == Cardinality({i \in 1..Len(calls) : calls[i] = call})

\* writeFile was called on Windows for an existing file and passed validation.
QuirkPath ==
    /\ lastOp.op = "writeFile"
    /\ isWindows(platform)
    /\ fileExists(lastOp.before, platform, toFilePath(lastOp.resource))
    /\ lastOp.opts.overwrite

\* C21: on Windows, writeFile of an existing file truncates once, then makes
\* at most 3 writes with r+; a successful r+ write is the last OS call, and a
\* call issues at most 6 OS calls.
C21_BoundedRetry ==
    QuirkPath =>
        LET updates == Count(lastOp.calls, "writeFile r+")
        IN  /\ Count(lastOp.calls, "truncate") = 1
            /\ lastOp.calls[1] = "fileExists" /\ lastOp.calls[2] = "truncate"
            /\ updates <= retries
            /\ \A i \in 3..(2 + updates) : lastOp.calls[i] = "writeFile r+"
            /\ Count(lastOp.calls, "writeFile") <= 1
            /\ Len(lastOp.calls) <= 2 + retries + 1
            /\ (updates > 0 /\ updates < retries)
                   => /\ lastOp.calls[Len(lastOp.calls)] = "writeFile r+"
                      /\ lastOp.error = NoError
            /\ lastOp.calls[Len(lastOp.calls)] = "writeFile r+"
                   => /\ lastOp.error = NoError
                      /\ disk[resolve(disk, platform, toFilePath(lastOp.resource))].data
                             = lastOp.content

\* The r+ write failed twice and succeeded the third time; nothing followed it.
C21_Witness ==
    /\ QuirkPath
    /\ lastOp.calls = <<"fileExists", "truncate", "writeFile r+", "writeFile r+",
                        "writeFile r+">>
    /\ lastOp.error = NoError

\* C22: on Windows, writeFile of an existing file writes directly only when
\* the truncation failed; when the truncation succeeded and the 3 writes with
\* r+ all failed, the call fails with a taxonomy error and issues no further
\* write.
C22_FallbackOnlyAfterTruncate ==
    QuirkPath =>
        /\ Count(lastOp.calls, "writeFile") = 1
               => Count(lastOp.calls, "writeFile r+") = 0
        /\ (Count(lastOp.calls, "writeFile r+") = retries /\ lastOp.error # NoError)
               => /\ lastOp.error.name = "FileSystemProviderError"
                  /\ lastOp.calls[Len(lastOp.calls)] = "writeFile r+"

\* C27: a writeFile on an existing file that passed validation and failed
\* leaves the file with the content it had or with the whole new content.
C27_FailedWriteKeepsContent ==
    (/\ lastOp.op = "writeFile"
     /\ fileExists(lastOp.before, platform, toFilePath(lastOp.resource))
     /\ lastOp.opts.overwrite
     /\ lastOp.error # NoError)
        => LET n == resolve(lastOp.before, platform, toFilePath(lastOp.resource))
           IN  \/ disk[n] = lastOp.before[n]
               \/ disk[n] = File(lastOp.content)

(***************************************************************************)
(* Properties of rename and copy.                                          *)
(***************************************************************************)
\* The OS calls C23 lets a rename or copy issue, in order.
OrderedSteps ==
    LET final  == IF lastOp.op = "rename" THEN "move" ELSE "copy"
        exists == fileExists(lastOp.before, platform, toFilePath(lastOp.target))
    IN  IF CaseVariant(lastOp.resource, lastOp.target) THEN <<final>>
        ELSE IF ~exists THEN <<"fileExists", final>>
        ELSE IF ~lastOp.opts.overwrite THEN <<"fileExists">>
        ELSE IF lastOp.fault.delete # "ok" THEN <<"fileExists", "rimraf">>
        ELSE <<"fileExists", "rimraf", final>>

\* C23: rename and copy check the target, then delete it, then move or copy:
\* the move / copy comes last and only when validation passed, the recursive
\* delete is issued only for an existing target with overwrite that is not a
\* case variant of the source, a case variant on a case-insensitive provider
\* goes to the move / copy at once even without overwrite, and on a
\* case-sensitive provider every pair of paths is checked.
C23_ValidateDeleteMove ==
    lastOp.op \in {"rename", "copy"} =>
        /\ lastOp.calls = OrderedSteps
        /\ isPathCaseSensitive(platform) => lastOp.calls[1] = "fileExists"
        /\ "rimraf" \in Issued(lastOp.calls)
               => /\ fileExists(lastOp.before, platform, toFilePath(lastOp.target))
                  /\ lastOp.opts.overwrite
                  /\ ~CaseVariant(lastOp.resource, lastOp.target)

\* Without overwrite, x was renamed to X on a case-insensitive provider:
\* the move was the only OS call.
C23_Witness ==
    /\ lastOp.op = "rename"
    /\ ~lastOp.opts.overwrite
    /\ ~isPathCaseSensitive(platform)
    /\ toFilePath(lastOp.resource) # toFilePath(lastOp.target)
    /\ fileExists(lastOp.before, platform, toFilePath(lastOp.target))
    /\ lastOp.calls = <<"move">>
    /\ lastOp.error = NoError

\* C26: a rename or copy that fails leaves at `from` what `from` held: the
\* delete of the target never removes the source.
C26_SourceSurvives ==
    (/\ lastOp.op \in {"rename", "copy"}
     /\ fileExists(lastOp.before, platform, toFilePath(lastOp.resource))
     /\ lastOp.error # NoError)
        => LET n == resolve(lastOp.before, platform, toFilePath(lastOp.resource))
           IN  disk[n] = lastOp.before[n]

(***************************************************************************)
(* Properties of a recomputation.                                          *)
(***************************************************************************)
\* The step is a run of the debounced recomputation.
Recomputes == timeouts' = timeouts - 1 /\ providerDisposed' = providerDisposed

\* C18: a recomputation that finds the multi-folder watcher active gives it
\* the folder set, whatever its size, and neither disposes nor constructs an
\* instance; a recomputation that finds a single-folder watcher active
\* disposes it.
C18_MultiFolderReused ==
    [][Recomputes =>
          /\ LiveKind = "Nsfw"
                 => /\ recursiveWatcher' = recursiveWatcher
                    /\ Len(instances') = Len(instances)
                    /\ \A i \in 1..Len(instances) :
                           instances'[i].alive = instances[i].alive
                    /\ instances'[recursiveWatcher].folders = recursiveFoldersToWatch
          /\ LiveKind \in {"Unix", "Windows"}
                 => ~instances'[recursiveWatcher].alive]_vars

\* The multi-folder watcher was active when a recomputation read an empty
\* folder set, and it is still the active watcher, with no folder.
C18_Witness ==
    /\ lastRun.pre = "Nsfw"
    /\ lastRun.n = 0
    /\ lastRun.disposed = 0
    /\ lastRun.created = 0
    /\ burst.kind = "none"
    /\ LiveKind = "Nsfw"
    /\ instances[recursiveWatcher].folders = <<>>

\* C19: a recomputation that does not find the multi-folder watcher active
\* disposes the watcher it holds, if any, and constructs none for an empty
\* folder set, the Windows watcher on Windows and the Unix watcher elsewhere
\* for one folder, and the multi-folder watcher for two or more.
C19_CreatesBySize ==
    [][(Recomputes /\ ~instanceofNsfw(instances, recursiveWatcher)) =>
          LET n == Len(recursiveFoldersToWatch)
          IN  /\ recursiveWatcher # 0 => ~instances'[recursiveWatcher].alive
              /\ \A i \in 1..Len(instances) :
                     i # recursiveWatcher => instances'[i] = instances[i]
              /\ n = 0 => /\ Len(instances') = Len(instances)
                          /\ recursiveWatcher' = recursiveWatcher
              /\ n > 0 => /\ Len(instances') = Len(instances) + 1
                          /\ recursiveWatcher' = Len(instances')
                          /\ instances'[recursiveWatcher'].alive
                          /\ instances'[recursiveWatcher'].folders = recursiveFoldersToWatch
              /\ n = 1 => instances'[recursiveWatcher'].kind =
                              IF isWindows(platform) THEN "Windows" ELSE "Unix"
              /\ n > 1 => instances'[recursiveWatcher'].kind = "Nsfw"]_vars

\* On Windows a recomputation disposed a single-folder watcher and
\* constructed the Windows watcher for the one folder registered.
C19_Witness ==
    /\ isWindows(platform)
    /\ lastRun.pre = "Windows"
    /\ lastRun.n = 1
    /\ lastRun.disposed = 1
    /\ lastRun.created = 1
    /\ burst.kind = "none"
    /\ LiveKind = "Windows"

\* C20: once a recomputation has completed with no folder registered, no
\* recursive watcher instance is alive.
C20_EmptyHasNoWatcher ==
    (burst.kind = "none" /\ timeouts = 0 /\ recursiveFoldersToWatch = <<>>)
        => AliveRecursive = {}

\* C24: a dispose of a registration that was disposed before changes nothing
\* in the folder set.
C24_RepeatedDisposeNoEffect ==
    [][(regs' = regs /\ disposedRegs' = disposedRegs /\ timeouts' = 1)
           => recursiveFoldersToWatch' = recursiveFoldersToWatch]_vars

\* C25: once the provider is disposed no recursive watcher instance is alive.
C25_NoWatcherAfterDispose ==
    providerDisposed => AliveRecursive = {}

(***************************************************************************)
(* Properties of the error normalization.                                  *)
(***************************************************************************)
\* C13: the normalizer returns an error that is already a taxonomy error as
\* it is: every error an operation throws is a fixed point of it, and the
\* error of the target delete nested in rename / copy reaches the caller
\* with the code and message the delete gave it, as does the validation
\* error of writeFile; the error of a stat nested in readdir is logged and
\* never thrown by readdir.
C13_NormalizerIdempotent ==
    lastOp.error # NoError =>
        /\ toFileSystemProviderError(lastOp.error) = lastOp.error
        /\ (/\ lastOp.op \in {"rename", "copy"}
            /\ lastOp.calls = <<"fileExists", "rimraf">>)
               => /\ lastOp.fault.delete = "EPERM"
                  /\ lastOp.error.name = "FileSystemProviderError"
                  /\ lastOp.error.code = "NoPermissions"
                  /\ lastOp.error.message = "EPERM"
        /\ (lastOp.op = "writeFile" /\ lastOp.calls = <<"fileExists">>)
               => lastOp.error.code \in {"FileExists", "FileNotFound"}
        /\ lastOp.op = "readdir" => lastOp.calls = <<"readdir">>

\* C13 as stated: the error of a stat nested in readdir reaches the caller of
\* readdir too, with the code the stat gave it.
C13_Original ==
    /\ C13_NormalizerIdempotent
    /\ (/\ lastOp.op = "readdir"
        /\ lastOp.fault.list = "ok"
        /\ \E i \in 1..Len(fsReaddir(lastOp.before, platform, toFilePath(lastOp.resource))) :
               fsReaddir(lastOp.before, platform, toFilePath(lastOp.resource))[i]
                   \in lastOp.fault.failing)
           => /\ lastOp.error # NoError
              /\ lastOp.error.code = toFileSystemProviderError(ErrnoException("EACCES")).code

\* The recursive delete of the target failed inside a copy and the copy threw
\* the delete's error.
C13_Witness ==
    /\ lastOp.op = "copy"
    /\ lastOp.calls = <<"fileExists", "rimraf">>
    /\ lastOp.error.code = "NoPermissions"
    /\ disk = lastOp.before

Taxonomy == {"FileNotFound", "FileIsADirectory", "FileExists", "NoPermissions", "Unknown"}

\* C14: whatever an operation throws is a FileSystemProviderError with one
\* code of the taxonomy, and an operation whose OS call fails does throw.
C14_OnlyTaxonomyErrors ==
    /\ lastOp.error # NoError
           => /\ lastOp.error.name = "FileSystemProviderError"
              /\ lastOp.error.code \in Taxonomy
    /\ (/\ lastOp.op \in {"stat", "readFile", "open", "close", "read", "write", "mkdir"}
        /\ lastOp.fault # "ok")
           => lastOp.error # NoError
    /\ (lastOp.op = "readdir" /\ lastOp.fault.list # "ok") => lastOp.error # NoError
    /\ (lastOp.op = "rename" /\ lastOp.fault.move # "ok" /\ lastOp.fault.delete = "ok")
           => lastOp.error # NoError
    /\ (lastOp.op = "copy" /\ lastOp.fault.copy # "ok" /\ lastOp.fault.delete = "ok")
           => lastOp.error # NoError

\* A non-recursive delete of a directory failed and threw a taxonomy error.
C14_Witness ==
    /\ lastOp.op = "delete"
    /\ lastOp.calls = <<"unlink">>
    /\ isDirectory(lastOp.before, platform, toFilePath(lastOp.resource))
    /\ lastOp.error.name = "FileSystemProviderError"
    /\ lastOp.error.code \in {"FileIsADirectory", "NoPermissions"}

\* The taxonomy code of an OS code, as C15 gives it.
TaxonomyOf(code) ==
    CASE code = "ENOENT" -> "FileNotFound"
      [] code = "EISDIR" -> "FileIsADirectory"
      [] code = "EEXIST" -> "FileExists"
      [] code \in {"EPERM", "EACCES"} -> "NoPermissions"
      [] OTHER -> "Unknown"

\* C15: an operation whose OS call fails with a code throws the taxonomy
\* code of that code: FileNotFound for ENOENT, FileIsADirectory for EISDIR,
\* FileExists for EEXIST, NoPermissions for EPERM and EACCES, Unknown
\* otherwise; so stat and mkdir refused for lack of permission throw
\* NoPermissions.
C15_MapsOsCodes ==
    (/\ lastOp.op \in {"stat", "readFile", "open", "close", "read", "write", "mkdir"}
     /\ lastOp.fault # "ok")
        => lastOp.error.code = TaxonomyOf(lastOp.fault)

\* C16: readdir throws only when the listing fails; otherwise it returns, in
\* listing order, the name and type of exactly the children whose stat did
\* not fail.
C16_ReaddirPartial ==
    lastOp.op = "readdir" =>
        LET path    == toFilePath(lastOp.resource)
            isDir   == path = <<>> \/ isDirectory(lastOp.before, platform, path)
            listing == fsReaddir(lastOp.before, platform, path)
            kept    == SelectSeq(listing, LAMBDA c : c \notin lastOp.fault.failing)
        IN  /\ lastOp.error # NoError <=> (lastOp.fault.list # "ok" \/ ~isDir)
            /\ lastOp.error # NoError => lastOp.calls = <<"readdir">>
            /\ lastOp.error = NoError
                   => /\ Len(lastOp.value) = Len(kept)
                      /\ \A i \in 1..Len(kept) :
                             /\ lastOp.value[i].name = kept[i]
                             /\ lastOp.value[i].type =
                                    IF lastOp.before[<<kept[i]>>].dir
                                    THEN "Directory" ELSE "File"
            /\ disk = lastOp.before

\* readdir of the folder returned a file and a directory and left out a
\* child whose stat failed.
C16_Witness ==
    /\ lastOp.op = "readdir"
    /\ lastOp.error = NoError
    /\ lastOp.calls = <<"readdir", "statLink", "statLink", "statLink">>
    /\ Len(lastOp.value) = 2
    /\ lastOp.value[1].type = "File"
    /\ lastOp.value[2].type = "Directory"

\* readdir returned nothing although the folder holds children: the stat of
\* every child failed.
C16_WitnessAll ==
    /\ lastOp.op = "readdir"
    /\ lastOp.error = NoError
    /\ Len(lastOp.calls) > 1
    /\ lastOp.value = <<>>

(***************************************************************************)
(* Properties of the file service.                                         *)
(***************************************************************************)
\* C17: a call with a resource whose path is not absolute fails with the
\* invalid-path error, and nothing was done for it: no provider activation,
\* no lookup of the provider, no operation of a provider or of the disk.
C17_RejectsNonAbsolute ==
    (lastCall.op # "none" /\ ~isAbsolutePath(lastCall.resource))
        => /\ lastCall.error.name = "FileOperationError"
           /\ lastCall.error.code = "FILE_INVALID_PATH"
           /\ lastCall.steps = <<>>
           /\ lastCall.provider = 0
           /\ lastCall.stage \in {"thrown", "rejected"}

\* A call with a relative path was rejected although a provider is registered
\* for its scheme.
C17_Witness ==
    /\ lastCall.op = "updateContent"
    /\ lastCall.resource.path = <<"f">>
    /\ lastCall.resource.scheme \in Schemes
    /\ _provider[lastCall.resource.scheme] # 0
    /\ lastCall.stage = "thrown"
    /\ lastCall.error.code = "FILE_INVALID_PATH"

\* C28: a registerProvider for a scheme that has a provider throws and
\* changes no entry of the registry, otherwise it adds the provider for its
\* scheme only; the first dispose of the object it returned removes that
\* provider and no other, and a later dispose of the same object changes
\* nothing.
C28_DisposeUnregistersOwn ==
    [][/\ Len(registrations') = Len(registrations) + 1
              => LET id == Len(registrations')
                     r  == registrations'[id]
                 IN  /\ r.threw <=> _provider[r.scheme] # 0
                     /\ r.threw => _provider' = _provider
                     /\ ~r.threw => _provider' = [_provider EXCEPT ![r.scheme] = id]
       /\ \A i \in 1..Len(registrations) :
              (~registrations[i].disposed /\ registrations'[i].disposed)
                  => _provider' = [_provider EXCEPT ![registrations[i].scheme] =
                                                       IF @ = i THEN 0 ELSE @]
       /\ (registrations' = registrations /\ lastCall' = lastCall)
              => _provider' = _provider]_vars

====
